---- MODULE Spec2Model ----
(***************************************************************************)
(* Room Visualizer (src/app.py): the session state machine of the          *)
(* generate / refine / report workflow.                                    *)
(*                                                                         *)
(* Python values are records tagged by their type in the field py, so that *)
(* None, strings, lists, dicts and images can be compared with each other. *)
(* A Python string is a sequence of tokens (words, " ", punctuation).      *)
(***************************************************************************)
EXTENDS Naturals, Sequences, FiniteSets

VARIABLES
    session_state,  \* st.session_state: the seven fields of lines 72-78
    lastOp,         \* the handler that ran last
    calls,          \* the client.models.generate_content calls it issued, in order
    imageCall,      \* its image call: the endpoint's response and what
                    \* generate_renovation returned for it
    shown,          \* the message it passed to st.error, or None
    raised,         \* whether an exception left the handler
    latestAfter,    \* the image returned by the latest handler that completed with an image
    refines         \* successful refines since the last successful generate (saturating)

vars == <<session_state, lastOp, calls, imageCall, shown, raised, latestAfter, refines>>

----------------------------------------------------------------------------
(* Bounds of the exploration *)

NumUploads == 2     \* distinct photos the user can upload or capture
NumGen == 2         \* distinct images the image endpoint can return
MaxStack == 2       \* the refine counter saturates here

----------------------------------------------------------------------------
(* Python values *)

PyNone == [py |-> "None"]
PyStr(s) == [py |-> "str", v |-> s]
PyList(xs) == [py |-> "list", v |-> xs]
PyDict(d) == [py |-> "dict", v |-> d]
PyImage(kind, id, mode, w, h) ==
    [py |-> "Image", kind |-> kind, id |-> id, mode |-> mode, w |-> w, h |-> h]

\* Python truth value, as tested by `if x:`
Truthy(x) ==
    CASE x.py = "None" -> FALSE
      [] x.py = "str" -> x.v # <<>>
      [] x.py = "list" -> x.v # <<>>
      [] x.py = "dict" -> DOMAIN x.v # {}
      [] OTHER -> TRUE

IMAGE_MODEL_ID == "gemini-3-pro-image-preview"
TEXT_MODEL_ID == "gemini-2.0-flash"

\* the session state after the initialisation of lines 72-78
InitialSession ==
    [current_view |-> "input",
     input_img |-> PyNone,
     result_img |-> PyNone,
     summary |-> PyStr(<<>>),
     rationale |-> PyStr(<<>>),
     shop_list |-> PyList(<<>>),
     pdf_b64 |-> PyNone]

----------------------------------------------------------------------------
(* Input acquisition *)

MaxSide == 800

\* Image.thumbnail((800, 800)): unchanged when it fits, else scaled to fit with
\* the aspect ratio kept (the sizes explored divide exactly)
Thumbnail(img) ==
    IF img.w <= MaxSide /\ img.h <= MaxSide THEN img
    ELSE IF img.w >= img.h
         THEN [img EXCEPT !.w = MaxSide, !.h = (MaxSide * img.h) \div img.w]
         ELSE [img EXCEPT !.h = MaxSide, !.w = (MaxSide * img.w) \div img.h]

compress_image(image) ==
    Thumbnail(IF image.mode # "RGB" THEN [image EXCEPT !.mode = "RGB"] ELSE image)

\* the files the user can hand to the uploader or the camera
Photos ==
    { PyImage("upload", i, IF i = 1 THEN "RGBA" ELSE "RGB",
              IF i = 1 THEN 1600 ELSE 640, IF i = 1 THEN 1200 ELSE 480)
      : i \in 1..NumUploads }

\* the images the image endpoint can produce
GenImages ==
    { PyImage("generated", i, "RGB", 1024, 768) : i \in 1..NumGen }
    \cup { PyImage("generated", 0, "RGBA", 1024, 768) }

handle_upload(s, uploader) ==
    IF Truthy(uploader) THEN [s EXCEPT !.input_img = compress_image(uploader)] ELSE s

handle_camera(s, camera) ==
    IF Truthy(camera) THEN [s EXCEPT !.input_img = compress_image(camera)] ELSE s

----------------------------------------------------------------------------
(* The external endpoints: what one generate_content call can do *)

\* bytes, or base64 text of bytes; content is the picture they encode, or Junk
Junk == [py |-> "junk"]
Bytes(content) == [enc |-> "bytes", content |-> content]
B64Text(content) == [enc |-> "b64", content |-> content]
b64decode(data) == [enc |-> "bytes", content |-> data.content]

TextPart == [inline_data |-> PyNone]
InlinePart(data) == [inline_data |-> [py |-> "Blob", data |-> data]]

Fault(msg) == [fault |-> TRUE, msg |-> msg]
Candidates(cs) == [fault |-> FALSE, candidates |-> cs]
Candidate(parts) == [content |-> [parts |-> parts]]

\* str(e) of the exceptions the client raises: some carry no message
FaultMessages == { <<>>, <<"429", " ", "quota", " ", "exceeded">> }

ImageResponses ==
    { Fault(m) : m \in FaultMessages }
    \cup { Candidates(<<>>),
           Candidates(<<Candidate(<<TextPart>>)>>),
           Candidates(<<Candidate(<<InlinePart(Bytes(Junk))>>)>>) }
    \cup { Candidates(<<Candidate(<<TextPart, InlinePart(Bytes(g))>>)>>) : g \in GenImages }
    \cup { Candidates(<<Candidate(<<InlinePart(B64Text(g))>>)>>) : g \in GenImages }

\* response.text of the text endpoint: a document json.loads accepts, or not
JsonText(value) == [valid |-> TRUE, value |-> value]
InvalidText == [valid |-> FALSE]
Text(t) == [fault |-> FALSE, text |-> t]

json_loads(t) ==
    IF t.valid THEN [raised |-> FALSE, value |-> t.value]
    ELSE [raised |-> TRUE, value |-> PyNone]

SomeSummary == PyStr(<<"A", " ", "brighter", " ", "room.">>)
SomeRationale == PyStr(<<"Warm", " ", "tones", " ", "open", " ", "the", " ", "space.">>)

DesignResponses ==
    { Fault(<<>>), Text(InvalidText),
      Text(JsonText(PyDict([summary |-> SomeSummary, rationale |-> SomeRationale]))),
      Text(JsonText(PyDict([rationale |-> SomeRationale]))),
      Text(JsonText(PyDict([summary |-> PyStr(<<>>), rationale |-> SomeRationale]))),
      Text(JsonText(PyDict([summary |-> PyNone, rationale |-> SomeRationale]))),
      Text(JsonText(PyList(<<>>))) }

OakEntry ==
    PyDict([item |-> PyStr(<<"Oak", " ", "Flooring">>),
            query |-> PyStr(<<"buy", " ", "oak", " ", "flooring">>)])
LampEntry ==
    PyDict([item |-> PyStr(<<"Brass", " ", "Lamp">>),
            query |-> PyStr(<<"brass", " ", "lamp">>)])
NoQueryEntry == PyDict([item |-> PyStr(<<"Oak", " ", "Flooring">>)])

MaterialResponses ==
    { Fault(<<>>), Text(InvalidText),
      Text(JsonText(PyList(<<OakEntry, LampEntry>>))),
      Text(JsonText(PyList(<<OakEntry, NoQueryEntry>>))),
      Text(JsonText(OakEntry)),
      Text(JsonText(PyNone)) }

----------------------------------------------------------------------------
(* 3. Logic functions.  Each takes, as its last argument, what the endpoint  *)
(* does with the one call the function issues, and reports that call.        *)

Call(model, template, image, request) ==
    [model |-> model, template |-> template, image |-> image, request |-> request]

\* dict.get(key, default)
Get(d, key, default) == IF key \in DOMAIN d.v THEN d.v[key] ELSE default

generate_shopping_list(result_image, user_request, response) ==
    LET call == Call(TEXT_MODEL_ID, "shopping_list", result_image, user_request)
        loaded == json_loads(response.text)
    IN  [calls |-> <<call>>,
         value |-> IF response.fault \/ loaded.raised THEN PyList(<<>>)
                   ELSE loaded.value]

FallbackSummary(room, category) ==
    PyStr(<<"Renovation", " ", "of", " ", room, " ", "updating", " ", category, ".">>)
FallbackRationale ==
    PyStr(<<"This", " ", "design", " ", "modernizes", " ", "the", " ", "space.">>)

generate_design_content(room, category, desc, response) ==
    LET call == Call(TEXT_MODEL_ID, "design_content", PyNone, desc)
        loaded == json_loads(response.text)
        \* a fault, unparseable text, or a value with no .get: the bare except
        failed == response.fault \/ loaded.raised \/ loaded.value.py # "dict"
    IN  [calls |-> <<call>>,
         summary |-> IF failed THEN FallbackSummary(room, category)
                     ELSE Get(loaded.value, "summary", PyStr(<<>>)),
         rationale |-> IF failed THEN FallbackRationale
                       ELSE Get(loaded.value, "rationale", PyStr(<<>>))]

\* Image.open(io.BytesIO(img_data))
Image_open(img_data) ==
    IF img_data.content.py = "Image"
    THEN [raised |-> FALSE, value |-> img_data.content, msg |-> <<>>]
    ELSE [raised |-> TRUE, value |-> PyNone,
          msg |-> <<"cannot", " ", "identify", " ", "image", " ", "file">>]

\* the index of the first part that carries inline data, 0 when there is none
FirstInline(parts) ==
    LET with == { i \in 1..Len(parts) : Truthy(parts[i].inline_data) }
    IN  IF with = {} THEN 0 ELSE CHOOSE i \in with : \A j \in with : i <= j

\* a variant that issues the call a second time when the first one raised
generate_renovation_retrying(input_image, prompt_text, response) ==
    LET call == Call(IMAGE_MODEL_ID, "renovation", input_image, prompt_text)
        parts == response.candidates[1].content.parts
        k == FirstInline(parts)
        raw_data == parts[k].inline_data.data
        img_data == IF raw_data.enc = "bytes" THEN raw_data ELSE b64decode(raw_data)
        opened == Image_open(img_data)
    IN  IF response.fault
        THEN [calls |-> <<call, call>>, res |-> PyNone, err |-> PyStr(response.msg)]
        ELSE IF response.candidates # <<>> /\ k # 0
        THEN IF opened.raised
             THEN [calls |-> <<call>>, res |-> PyNone, err |-> PyStr(opened.msg)]
             ELSE [calls |-> <<call>>, res |-> opened.value, err |-> PyNone]
        ELSE [calls |-> <<call>>, res |-> PyNone,
              err |-> PyStr(<<"No", " ", "visual", " ", "data", " ", "returned.">>)]

generate_renovation(input_image, prompt_text, response) ==
    LET call == Call(IMAGE_MODEL_ID, "renovation", input_image, prompt_text)
        parts == response.candidates[1].content.parts
        k == FirstInline(parts)
        raw_data == parts[k].inline_data.data
        img_data == IF raw_data.enc = "bytes" THEN raw_data ELSE b64decode(raw_data)
        opened == Image_open(img_data)
    IN  IF response.fault
        THEN [calls |-> <<call>>, res |-> PyNone, err |-> PyStr(response.msg)]
        ELSE IF response.candidates # <<>> /\ k # 0
        THEN IF opened.raised
             THEN [calls |-> <<call>>, res |-> PyNone, err |-> PyStr(opened.msg)]
             ELSE [calls |-> <<call>>, res |-> opened.value, err |-> PyNone]
        ELSE [calls |-> <<call>>, res |-> PyNone,
              err |-> PyStr(<<"No", " ", "visual", " ", "data", " ", "returned.">>)]

----------------------------------------------------------------------------
(* 4. PDF engine *)

\* str.replace(old, new) on a string whose spaces are tokens of their own
Replace(s, old, new) == [i \in 1..Len(s) |-> IF s[i] = old THEN new ELSE s[i]]

\* reportlab's Paragraph(text, style) takes a str
ParagraphOK(text) == text.py = "str"

\* prep(img): img.save(b, format='JPEG') writes an RGB image; it raises on
\* None and on a mode JPEG cannot hold (RGBA: "cannot write mode RGBA as JPEG")
PrepOK(img) == img.py = "Image" /\ img.mode = "RGB"

\* what `for item in shopping_list` yields: a list's elements, a dict's keys
KeySeq(d) ==
    LET n == Cardinality(DOMAIN d)
        f == CHOOSE g \in [1..n -> DOMAIN d] : \A i, j \in 1..n : g[i] = g[j] => i = j
    IN  [i \in 1..n |-> PyStr(<<f[i]>>)]
Items(shopping_list) ==
    IF shopping_list.py = "list" THEN shopping_list.v ELSE KeySeq(shopping_list.v)

\* item['query'].replace(...) and item["item"] succeed
EntryOK(item) ==
    /\ item.py = "dict"
    /\ "query" \in DOMAIN item.v
    /\ item.v["query"].py = "str"
    /\ "item" \in DOMAIN item.v

SearchUrl(query) ==
    <<"https://www.google.com/search?q=">> \o Replace(query, " ", "+") \o <<"&tbm=shop">>

MaterialLinks(shopping_list) ==
    IF Truthy(shopping_list)
    THEN [i \in 1..Len(Items(shopping_list)) |->
            [item |-> Items(shopping_list)[i].v["item"],
             url |-> SearchUrl(Items(shopping_list)[i].v["query"].v)]]
    ELSE <<>>

b64encode(pdf_bytes) == [py |-> "b64str", pdf |-> pdf_bytes]

create_pdf_report(before_img, after_img, summary_text, rationale_text, shopping_list) ==
    LET ok == /\ ParagraphOK(summary_text)
              /\ PrepOK(before_img) /\ PrepOK(after_img)
              /\ ParagraphOK(rationale_text)
              /\ Truthy(shopping_list) =>
                    \A i \in 1..Len(Items(shopping_list)) : EntryOK(Items(shopping_list)[i])
    IN  IF ok
        THEN [raised |-> FALSE,
              value |-> b64encode([title |-> "Renovation Proposal",
                                   summary |-> summary_text.v,
                                   before |-> before_img,
                                   after |-> after_img,
                                   rationale |-> rationale_text.v,
                                   materials |-> MaterialLinks(shopping_list),
                                   next_steps |-> TRUE])]
        ELSE [raised |-> TRUE, value |-> PyNone]

----------------------------------------------------------------------------
(* 5./6. Callbacks and handlers.  A handler maps the session and the        *)
(* endpoints' behaviour to the session it leaves, the calls it issued, the  *)
(* message it showed with st.error and whether an exception left it.        *)

Rooms == {"Kitchen"}
Categories == {"Flooring"}
Descriptions == { <<"white", " ", "oak", " ", "floors">> }
Instructions == { <<"make", " ", "it", " ", "darker">> }

Outcome(s, cs, msg, exc, gen) ==
    [s |-> s, calls |-> cs, shown |-> msg, raised |-> exc, res |-> gen.res, err |-> gen.err]

reset_app(s) ==
    [s EXCEPT !.current_view = "input",
              !.input_img = PyNone,
              !.result_img = PyNone,
              !.pdf_b64 = PyNone]

\* a variant that runs and stores the summary call before it tests the image
GenerateProposalEager(s, r, c, d, imageResponse, designResponse, materialResponse) ==
    LET prompt == <<"Renovate", " ", r, ".", " ", "Update", " ", c, ".", " ", "Details:", " ">> \o d
        gen == generate_renovation(s.input_img, prompt, imageResponse)
        res == gen.res
        content == generate_design_content(r, c, d, designResponse)
        shopping == generate_shopping_list(res, d, materialResponse)
        s0 == [s EXCEPT !.summary = content.summary, !.rationale = content.rationale]
        s3 == [s0 EXCEPT !.result_img = res, !.shop_list = shopping.value]
        pdf == create_pdf_report(s3.input_img, res, s3.summary, s3.rationale, s3.shop_list)
        issued == gen.calls \o content.calls \o shopping.calls
    IN  IF Truthy(res)
        THEN IF pdf.raised
             THEN Outcome(s3, issued, PyNone, TRUE, gen)
             ELSE Outcome([s3 EXCEPT !.pdf_b64 = pdf.value, !.current_view = "result"],
                          issued, PyNone, FALSE, gen)
        ELSE IF Truthy(gen.err)
        THEN Outcome(s0, gen.calls \o content.calls, gen.err, FALSE, gen)
        ELSE Outcome(s0, gen.calls \o content.calls, PyNone, FALSE, gen)

\* the body of `if st.button("Generate Proposal")`
GenerateProposal(s, r, c, d, imageResponse, designResponse, materialResponse) ==
    LET prompt == <<"Renovate", " ", r, ".", " ", "Update", " ", c, ".", " ", "Details:", " ">> \o d
        gen == generate_renovation(s.input_img, prompt, imageResponse)
        res == gen.res
        content == generate_design_content(r, c, d, designResponse)
        shopping == generate_shopping_list(res, d, materialResponse)
        s3 == [s EXCEPT !.result_img = res,
                        !.summary = content.summary,
                        !.rationale = content.rationale,
                        !.shop_list = shopping.value]
        pdf == create_pdf_report(s3.input_img, res, s3.summary, s3.rationale, s3.shop_list)
        issued == gen.calls \o content.calls \o shopping.calls
    IN  IF Truthy(res)
        THEN IF pdf.raised
             THEN Outcome(s3, issued, PyNone, TRUE, gen)
             ELSE Outcome([s3 EXCEPT !.pdf_b64 = pdf.value, !.current_view = "result"],
                          issued, PyNone, FALSE, gen)
        ELSE IF Truthy(gen.err)
        THEN Outcome(s, gen.calls, gen.err, FALSE, gen)
        ELSE Outcome(s, gen.calls, PyNone, FALSE, gen)

\* a variant that stores the new image before it tests it
RefineDesignStoresFirst(s, chat_input, imageResponse) ==
    LET gen == generate_renovation(s.result_img, chat_input, imageResponse)
        new_res == gen.res
        s1 == [s EXCEPT !.result_img = new_res]
        pdf == create_pdf_report(s1.input_img, new_res, s1.summary, s1.rationale, s1.shop_list)
    IN  IF Truthy(new_res)
        THEN IF pdf.raised
             THEN Outcome(s1, gen.calls, PyNone, TRUE, gen)
             ELSE Outcome([s1 EXCEPT !.pdf_b64 = pdf.value], gen.calls, PyNone, FALSE, gen)
        ELSE IF Truthy(gen.err)
        THEN Outcome(s1, gen.calls, gen.err, FALSE, gen)
        ELSE Outcome(s1, gen.calls, PyNone, FALSE, gen)

\* a variant that edits the original upload again
RefineDesignFromInput(s, chat_input, imageResponse) ==
    LET gen == generate_renovation(s.input_img, chat_input, imageResponse)
        new_res == gen.res
        s1 == [s EXCEPT !.result_img = new_res]
        pdf == create_pdf_report(s1.input_img, new_res, s1.summary, s1.rationale, s1.shop_list)
    IN  IF Truthy(new_res)
        THEN IF pdf.raised
             THEN Outcome(s1, gen.calls, PyNone, TRUE, gen)
             ELSE Outcome([s1 EXCEPT !.pdf_b64 = pdf.value], gen.calls, PyNone, FALSE, gen)
        ELSE IF Truthy(gen.err)
        THEN Outcome(s, gen.calls, gen.err, FALSE, gen)
        ELSE Outcome(s, gen.calls, PyNone, FALSE, gen)

\* the body of `if chat_input:`
RefineDesign(s, chat_input, imageResponse) ==
    LET gen == generate_renovation(s.result_img, chat_input, imageResponse)
        new_res == gen.res
        s1 == [s EXCEPT !.result_img = new_res]
        pdf == create_pdf_report(s1.input_img, new_res, s1.summary, s1.rationale, s1.shop_list)
    IN  IF Truthy(new_res)
        THEN IF pdf.raised
             THEN Outcome(s1, gen.calls, PyNone, TRUE, gen)
             ELSE Outcome([s1 EXCEPT !.pdf_b64 = pdf.value], gen.calls, PyNone, FALSE, gen)
        ELSE IF Truthy(gen.err)
        THEN Outcome(s, gen.calls, gen.err, FALSE, gen)
        ELSE Outcome(s, gen.calls, PyNone, FALSE, gen)

----------------------------------------------------------------------------
(* The state machine *)

NoCall == [made |-> FALSE]

Init ==
    /\ session_state = InitialSession
    /\ lastOp = "start"
    /\ calls = <<>>
    /\ imageCall = NoCall
    /\ shown = PyNone
    /\ raised = FALSE
    /\ latestAfter = PyNone
    /\ refines = 0

Quiet(op) ==
    /\ lastOp' = op
    /\ calls' = <<>>
    /\ imageCall' = NoCall
    /\ shown' = PyNone
    /\ raised' = FALSE
    /\ UNCHANGED <<latestAfter, refines>>

\* the uploader of the input view changes: a file is chosen, or removed
Upload ==
    /\ session_state.current_view = "input"
    /\ \E uploader \in Photos \cup {PyNone} :
          session_state' = handle_upload(session_state, uploader)
    /\ Quiet("capture")

\* the camera of the input view changes: a photo is taken, or cleared
Camera ==
    /\ session_state.current_view = "input"
    /\ \E camera \in Photos \cup {PyNone} :
          session_state' = handle_camera(session_state, camera)
    /\ Quiet("capture")

Min(a, b) == IF a <= b THEN a ELSE b

Observe(op, response, out) ==
    /\ session_state' = out.s
    /\ lastOp' = op
    /\ calls' = out.calls
    /\ imageCall' = [made |-> TRUE, response |-> response, res |-> out.res, err |-> out.err]
    /\ shown' = out.shown
    /\ raised' = out.raised

\* the Generate Proposal button, shown once the input view holds an image
Generate ==
    /\ session_state.current_view = "input"
    /\ Truthy(session_state.input_img)
    /\ \E r \in Rooms, c \in Categories, d \in Descriptions,
          ir \in ImageResponses, dr \in DesignResponses, mr \in MaterialResponses :
          \E out \in {GenerateProposal(session_state, r, c, d, ir, dr, mr)} :
              /\ Observe("generate", ir, out)
              /\ latestAfter' = IF Truthy(out.res) THEN out.res ELSE latestAfter
              /\ refines' = IF Truthy(out.res) THEN 0 ELSE refines

\* a line entered in the chat input of the result view
Refine ==
    /\ session_state.current_view = "result"
    /\ \E chat_input \in Instructions, ir \in ImageResponses :
          \E out \in {RefineDesign(session_state, chat_input, ir)} :
              /\ Observe("refine", ir, out)
              /\ latestAfter' = IF Truthy(out.res) THEN out.res ELSE latestAfter
              /\ refines' = IF Truthy(out.res) /\ ~out.raised
                            THEN Min(refines + 1, MaxStack) ELSE refines

\* the Start New Project button of the result view
Reset ==
    /\ session_state.current_view = "result"
    /\ session_state' = reset_app(session_state)
    /\ Quiet("reset")

Next == Upload \/ Camera \/ Generate \/ Refine \/ Reset

Spec == Init /\ [][Next]_vars

----------------------------------------------------------------------------
(* What the image endpoint did, read off its response *)

\* the response carries no part with inline data (no candidates, or text only)
NoImagePart(response) ==
    /\ ~response.fault
    /\ \/ response.candidates = <<>>
       \/ \A i \in 1..Len(response.candidates[1].content.parts) :
             ~Truthy(response.candidates[1].content.parts[i].inline_data)

\* the image call failed: the endpoint raised, or sent no image part
ImageCallFailed(response) == response.fault \/ NoImagePart(response)

Handled == lastOp \in {"generate", "refine"}

----------------------------------------------------------------------------
(* Properties *)

\* C1: a refine whose image call fails (endpoint fault, or no image part)
\* leaves result_img and pdf_b64 exactly as they were, and the view is still
\* 'result'.
FailedRefineUntouched ==
    [][(lastOp' = "refine" /\ ImageCallFailed(imageCall'.response)) =>
          /\ session_state'.result_img = session_state.result_img
          /\ session_state'.pdf_b64 = session_state.pdf_b64
          /\ session_state'.current_view = "result"]_vars

\* a refine has just failed on a session that holds an after-image and a report
FailedRefineSeen ==
    /\ lastOp = "refine"
    /\ ImageCallFailed(imageCall.response)
    /\ session_state.result_img.py = "Image"
    /\ session_state.pdf_b64 # PyNone

\* C2: every refine passes to the image endpoint the session's current
\* after-image, which is the image the latest generate or refine obtained from
\* the endpoint, and never the original input image.
RefineStacks ==
    [][lastOp' = "refine" =>
          /\ Len(calls') >= 1
          /\ calls'[1].model = IMAGE_MODEL_ID
          /\ calls'[1].image = session_state.result_img
          /\ calls'[1].image = latestAfter
          /\ calls'[1].image # session_state.input_img
          /\ calls'[1].image.kind = "generated"]_vars

\* a second refine in a row has succeeded: its input was the first one's output
StackedRefineSeen ==
    /\ lastOp = "refine"
    /\ refines >= 2
    /\ ~raised
    /\ imageCall.res = session_state.result_img
    /\ calls[1].image # session_state.result_img

\* C3: right after reset_app the view is 'input' and every session field has
\* its initial value.
ResetRestoresInitial == lastOp = "reset" => session_state = InitialSession

\* C4: when the image call of a generate returned an image the report can
\* embed, then whatever the summary and material calls did, no exception
\* leaves the handler and the session is in the result view with that image
\* stored and a report built.
SecondaryCallsAdvisory ==
    (lastOp = "generate" /\ imageCall.res.py = "Image" /\ imageCall.res.mode = "RGB") =>
        /\ ~raised
        /\ session_state.current_view = "result"
        /\ session_state.result_img = imageCall.res
        /\ session_state.pdf_b64 # PyNone

\* C5: generate_renovation returns an image and no error, or no image and a
\* non-empty error, which the handler shows to the user.
NeverSilentFailure ==
    Handled =>
        \/ imageCall.res.py = "Image" /\ imageCall.err = PyNone
        \/ imageCall.res = PyNone /\ Truthy(imageCall.err) /\ shown = imageCall.err

\* C6: a generate whose image call fails (no image part, or a fault) stays in
\* the input view and changes none of result_img, summary, rationale,
\* shop_list and pdf_b64.
FailedGenerateUntouched ==
    [][(lastOp' = "generate" /\ ImageCallFailed(imageCall'.response)) =>
          /\ session_state'.current_view = "input"
          /\ session_state'.result_img = session_state.result_img
          /\ session_state'.summary = session_state.summary
          /\ session_state'.rationale = session_state.rationale
          /\ session_state'.shop_list = session_state.shop_list
          /\ session_state'.pdf_b64 = session_state.pdf_b64]_vars

\* a generate has just failed on a session that still holds earlier results
FailedGenerateSeen ==
    /\ lastOp = "generate"
    /\ ImageCallFailed(imageCall.response)
    /\ session_state.current_view = "input"
    /\ session_state.summary # PyStr(<<>>)

\* C7: shop_list is always a list whose entries each have an item name and a
\* query string.
ShopListWellFormed ==
    /\ session_state.shop_list.py = "list"
    /\ \A i \in 1..Len(session_state.shop_list.v) : EntryOK(session_state.shop_list.v[i])

\* C8: in the result view the summary is a non-empty string.
SummaryNonEmpty ==
    session_state.current_view = "result" =>
        /\ session_state.summary.py = "str"
        /\ session_state.summary.v # <<>>

Templates(cs) == [i \in 1..Len(cs) |-> cs[i].template]

\* C9: a generate issues the image call, and then, only when that call
\* returned an image, the summary call and the material call, in this order
\* and once each; a refine issues one image call and nothing else.
CallsInOrder ==
    /\ lastOp = "generate" =>
          Templates(calls) = IF imageCall.res.py = "Image"
                             THEN <<"renovation", "design_content", "shopping_list">>
                             ELSE <<"renovation">>
    /\ lastOp = "refine" => Templates(calls) = <<"renovation">>
    /\ ~Handled => calls = <<>>
    /\ \A i \in 1..Len(calls) :
          calls[i].model = IF calls[i].template = "renovation"
                           THEN IMAGE_MODEL_ID ELSE TEXT_MODEL_ID

\* a generate has issued its three calls, and a refine its one
ThreeCallsSeen ==
    /\ lastOp = "generate"
    /\ Len(calls) = 3
    /\ session_state.current_view = "result"

\* C10: in the result view result_img and pdf_b64 are set and pdf_b64 is the
\* report of the session's current images, texts and material list.
ReportCurrent ==
    session_state.current_view = "result" =>
        /\ session_state.result_img # PyNone
        /\ session_state.pdf_b64 # PyNone
        /\ session_state.pdf_b64 =
              create_pdf_report(session_state.input_img, session_state.result_img,
                                session_state.summary, session_state.rationale,
                                session_state.shop_list).value

====
